---- MODULE Spec2Model ----
(***************************************************************************)
(* Job-Application-Tracker: the backend module (users.db tables and the    *)
(* Google Sheets mirror) and the Flask routes over it, as a state machine. *)
(* One action per backend function and per route; where the module defines *)
(* a name twice, the later definition is the one a call reaches (Python    *)
(* rebinds the name at import).                                            *)
(***************************************************************************)
EXTENDS Integers, Sequences, FiniteSets, TLC

VARIABLES
    users,             \* rows of table users
    users_seq,         \* AUTOINCREMENT high-water mark of users
    user_profiles,     \* rows of table user_profiles
    user_profiles_seq, \* AUTOINCREMENT high-water mark of user_profiles
    job_applications,  \* rows of table job_applications
    job_applications_seq, \* AUTOINCREMENT high-water mark of job_applications
    sheet,             \* the spreadsheet's sheet1: a sequence of rows of cells
    clock,             \* datetime.utcnow(), in ticks
    last,              \* the call the last step made: its name, arguments,
                       \* return value and the mirror call it made
    session,           \* per client, session["user"] (NoUser: not in session)
    inflight,          \* per client, the handler it is inside of, between its
                       \* statements
    request            \* the request the last step served: route, client,
                       \* what the client was answered

vars == <<users, users_seq, user_profiles, user_profiles_seq,
          job_applications, job_applications_seq, sheet, clock, last,
          session, inflight, request>>

\* the request layer's state
web == <<session, inflight, request>>

db == <<users, users_seq, user_profiles, user_profiles_seq,
        job_applications, job_applications_seq>>

-----------------------------------------------------------------------------
(* Bounds of the model *)

MaxUsers == 2       \* ids handed out by table users
MaxProfiles == 3    \* ids handed out by table user_profiles
MaxJobs == 2        \* ids handed out by table job_applications
MaxClock == 1       \* ticks the clock may advance
MaxAfter == 4       \* transport calls that succeed before an injected failure
MaxSheetRows == 3   \* rows of the sheet before an append

(* Units *)
TicksPerDay == 2    \* one tick is twelve hours
MinPasswordLen == 8

-----------------------------------------------------------------------------
(* Input universes *)

Emails == {"a@x.com", "b@x.com"}
BadEmails == {"not-an-email"}
Passwords == {"short", "password1", "hunter2000"}
Salts == {"s1", "s2"}
Links == {"http://job/1", "http://job/2"}
JobIds == 1..(MaxJobs + 1)

\* dict.get(key, default)
Get(data, key, default) == IF key \in DOMAIN data THEN data[key] ELSE default

\* datetime.isoformat() of a clock reading (tick = 12 h, from 2025-01-01)
isoformat(t) ==
    "2025-01-0" \o ToString((t \div TicksPerDay) + 1) \o
    (IF t % TicksPerDay = 0 THEN "T00:00:00" ELSE "T12:00:00")

\* datetime.fromisoformat(): the reading whose isoformat is s
fromisoformat(s) == CHOOSE t \in 0..(MaxClock + 1) : isoformat(t) = s

\* (a - b).days: timedelta truncated to whole days (floor)
days(a, b) == (a - b) \div TicksPerDay

\* the browsers, each with its own session cookie
Clients == {"c1", "c2"}
NoUser == "-"

-----------------------------------------------------------------------------
(* The call record *)

\* a client outside every handler; no request served by the last step
Idle == [at |-> "idle"]
NoRequest == [route |-> "none", client |-> "-", answer |-> ""]

NoCall == [op |-> "none", args |-> <<>>, ret |-> "", gs |-> <<>>]
Call(op, args, ret, gs) == [op |-> op, args |-> args, ret |-> ret, gs |-> gs]

-----------------------------------------------------------------------------
(* init_db: drop and recreate the three tables *)

\* variant: the tables created only where missing, users left as it is
init_db_keeping_users ==
    /\ UNCHANGED <<users, users_seq>>
    /\ user_profiles' = {}
    /\ user_profiles_seq' = 0
    /\ job_applications' = {}
    /\ job_applications_seq' = 0
    /\ last' = Call("init_db", <<>>, "", <<>>)
    /\ UNCHANGED <<sheet, clock>>

init_db ==
    /\ users' = {}
    /\ users_seq' = 0
    /\ user_profiles' = {}
    /\ user_profiles_seq' = 0
    /\ job_applications' = {}
    /\ job_applications_seq' = 0
    /\ last' = Call("init_db", <<>>, "", <<>>)
    /\ UNCHANGED <<sheet, clock>>

-----------------------------------------------------------------------------
(* Registration and login *)

\* validators.email(email)
validators_email(email) == email \in Emails

\* bcrypt.hashpw(password, salt): the salt and the digest it keys
hashpw(password, salt) == [salt |-> salt, digest |-> <<salt, password>>]

\* bcrypt.checkpw(password, hashed): rehash under the stored salt, compare
checkpw(password, hashed) == hashpw(password, hashed.salt) = hashed

\* variant: the email column without its UNIQUE constraint
IntegrityError_unconstrained(email) == FALSE

\* the UNIQUE constraint on users.email: the insert raises IntegrityError
IntegrityError(email) == \E u \in users : u.email = email

\* the result register_user returns, in the order the code decides it
register_result(email, password) ==
    IF ~validators_email(email) THEN "Invalid email format."
    ELSE IF Len(password) < MinPasswordLen
         THEN "Password must be at least 8 characters."
    ELSE IF IntegrityError(email) THEN "Email already registered."
    ELSE "Registration successful!"

register_user(email, password, salt) ==
    LET msg == register_result(email, password) IN
    /\ msg = "Registration successful!" => users_seq < MaxUsers
    /\ IF msg = "Registration successful!"
       THEN /\ users' = users \cup
                   {[id |-> users_seq + 1, email |-> email,
                     password_hash |-> hashpw(password, salt),
                     created_at |-> isoformat(clock)]}
            /\ users_seq' = users_seq + 1
       ELSE UNCHANGED <<users, users_seq>>
    /\ last' = Call("register_user", <<email, password>>, msg, <<>>)
    /\ UNCHANGED <<user_profiles, user_profiles_seq, job_applications,
                   job_applications_seq, sheet, clock>>

\* variant: an unknown email answered like a wrong password
login_result_merged(email, password) ==
    IF \E u \in users : u.email = email /\ checkpw(password, u.password_hash)
    THEN "Login successful!"
    ELSE "Incorrect password."

\* the result login_user returns
login_result(email, password) ==
    LET found == {u \in users : u.email = email} IN
    IF found = {} THEN "No account found with that email."
    ELSE LET user == CHOOSE u \in found : TRUE IN
         IF checkpw(password, user.password_hash) THEN "Login successful!"
         ELSE "Incorrect password."

login_user(email, password) ==
    /\ last' = Call("login_user", <<email, password>>,
                    login_result(email, password), <<>>)
    /\ UNCHANGED <<db, sheet, clock>>

-----------------------------------------------------------------------------
(* Profiles (local only) *)

ProfileDicts ==
    { [first_name |-> "Ann"],
      [first_name |-> "Ann", experience_months |-> 6, skills |-> "tla"],
      [first_name |-> "Bob", city |-> "Pune"] }

\* the ten data columns as save_profile and update_profile bind them
profile_columns(data) ==
    [first_name |-> Get(data, "first_name", ""),
     last_name |-> Get(data, "last_name", ""),
     address |-> Get(data, "address", ""),
     city |-> Get(data, "city", ""),
     mobile_number |-> Get(data, "mobile_number", ""),
     github_url |-> Get(data, "github_url", ""),
     job_position |-> Get(data, "job_position", ""),
     experience_months |-> Get(data, "experience_months", 0),
     skills |-> Get(data, "skills", ""),
     preferred_locations |-> Get(data, "preferred_locations", "")]

ProfileColumnNames == DOMAIN profile_columns([first_name |-> ""])

save_profile(data) ==
    /\ user_profiles_seq < MaxProfiles
    /\ user_profiles' = user_profiles \cup
            {[id |-> user_profiles_seq + 1, user_email |-> data["user_email"],
              created_at |-> isoformat(clock)] @@ profile_columns(data)}
    /\ user_profiles_seq' = user_profiles_seq + 1
    /\ last' = Call("save_profile", <<data>>, "Profile saved locally.", <<>>)
    /\ UNCHANGED <<users, users_seq, job_applications, job_applications_seq,
                   sheet, clock>>

\* variant: the subquery without its WHERE clause
latest_profile_id_any(user_email) ==
    {p.id : p \in {q \in user_profiles :
                     \A r \in user_profiles : r.id <= q.id}}

\* SELECT id FROM user_profiles WHERE user_email = ? ORDER BY id DESC LIMIT 1
\* (the set of ids it yields: one id, or none)
latest_profile_id(user_email) ==
    {p.id : p \in {q \in user_profiles :
                     /\ q.user_email = user_email
                     /\ \A r \in user_profiles :
                            r.user_email = user_email => r.id <= q.id}}

\* the dict get_profile returns: the latest row's ten columns, or {}
get_profile_result(user_email) ==
    LET ids == latest_profile_id(user_email) IN
    IF ids = {} THEN <<>>
    ELSE LET row == CHOOSE p \in user_profiles : p.id \in ids IN
         [k \in ProfileColumnNames |-> row[k]]

get_profile(user_email) ==
    /\ last' = Call("get_profile", <<user_email>>,
                    get_profile_result(user_email), <<>>)
    /\ UNCHANGED <<db, sheet, clock>>

\* UPDATE user_profiles SET ... WHERE id = (SELECT ... LIMIT 1)
updated_profiles(user_email, data) ==
    LET ids == latest_profile_id(user_email) IN
    { IF p.id \in ids THEN profile_columns(data) @@ p ELSE p :
        p \in user_profiles }

update_profile(user_email, data) ==
    /\ user_profiles' = updated_profiles(user_email, data)
    /\ last' = Call("update_profile", <<user_email, data>>,
                    "Profile updated locally.", <<>>)
    /\ UNCHANGED <<users, users_seq, user_profiles_seq, job_applications,
                   job_applications_seq, sheet, clock>>

-----------------------------------------------------------------------------
(* The Google Sheets mirror *)

\* headers, as append_job_to_google_sheets and clear_google_sheet_rows list it
HEADERS ==
    <<"User Email", "Job Link", "Company Name", "Job Role", "Job Location",
      "Status", "Recruiter Name", "Recruiter Email", "Recruiter Phone",
      "Days Since Created", "Comments", "Created At">>

\* str.strip() on the cells the model uses
strip(cell) ==
    CASE cell = " User Email " -> "User Email"
      [] cell = "Job Link " -> "Job Link"
      [] OTHER -> cell

\* list.index(x) + 1 if x in list else None (0 stands for None)
column_of(headers, name) ==
    IF \E i \in 1..Len(headers) : headers[i] = name
    THEN CHOOSE i \in 1..Len(headers) :
            /\ headers[i] = name
            /\ \A j \in 1..(i - 1) : headers[j] # name
    ELSE 0

Max(a, b) == IF a >= b THEN a ELSE b
Min(a, b) == IF a <= b THEN a ELSE b

\* sheet.delete_rows(i): row i (1-based) removed
delete_rows(sh, i) == SubSeq(sh, 1, i - 1) \o SubSeq(sh, i + 1, Len(sh))

\* variant: sorted(rows), ascending
RECURSIVE sorted_ascending(_)
sorted_ascending(S) ==
    IF S = {} THEN <<>>
    ELSE LET m == CHOOSE x \in S : \A y \in S : x <= y IN
         <<m>> \o sorted_ascending(S \ {m})

\* sorted(rows, reverse=True)
RECURSIVE sorted_reverse(_)
sorted_reverse(S) ==
    IF S = {} THEN <<>>
    ELSE LET m == CHOOSE x \in S : \A y \in S : y <= x IN
         <<m>> \o sorted_reverse(S \ {m})

\* the first n delete_rows calls of the loop over idxs
RECURSIVE delete_loop(_, _, _)
delete_loop(sh, idxs, n) ==
    IF n = 0 \/ idxs = <<>> THEN sh
    ELSE delete_loop(delete_rows(sh, Head(idxs)), Tail(idxs), n - 1)

\* variant: the header test looking at the length alone
header_mismatch_length_only(first_row) == Len(first_row) < Len(HEADERS)

\* the header test of append_job_to_google_sheets: the sheet is rewritten
header_mismatch(first_row) ==
    \/ Len(first_row) < Len(HEADERS)
    \/ \E i \in 1..Min(Len(first_row), Len(HEADERS)) :
            strip(first_row[i]) # strip(HEADERS[i])

\* the row append_job_to_google_sheets builds; utcnow is the clock it reads
sheet_row(data, created_iso, utcnow) ==
    <<Get(data, "user_email", ""),
      Get(data, "job_link", ""),
      Get(data, "company_name", ""),
      Get(data, "job_role", ""),
      Get(data, "job_location", ""),
      Get(data, "status", ""),
      Get(data, "recruiter_name", ""),
      Get(data, "recruiter_email", ""),
      Get(data, "recruiter_phone", ""),
      ToString(days(utcnow, fromisoformat(created_iso))),
      Get(data, "comments", ""),
      created_iso>>

\* the transport calls that change the sheet, in the order append makes them
append_writes(sh) ==
    IF sh = <<>> THEN <<"append_header", "append_row">>
    ELSE IF header_mismatch(sh[1]) THEN <<"clear", "append_header", "append_row">>
    ELSE <<"append_row">>

RECURSIVE apply_writes(_, _, _, _)
apply_writes(sh, writes, n, row) ==
    IF n = 0 \/ writes = <<>> THEN sh
    ELSE LET w == Head(writes)
             next == CASE w = "clear" -> <<>>
                       [] w = "append_header" -> Append(sh, HEADERS)
                       [] OTHER -> Append(sh, row)
         IN apply_writes(next, Tail(writes), n - 1, row)

\* transport calls before the first write: open the sheet, get_all_values
ReadCalls == 2

\* variant: every except clause re-raising
on_exception_reraise(fn) == "raise"

\* the except clause of a mirror function: what its caller gets when the
\* transport raised inside the try ("raise": the exception itself)
on_exception(fn) ==
    CASE fn = "append_job_to_google_sheets" ->
            "Failed to append job to Google Sheets: transport error"
      [] fn = "delete_job_from_google_sheets" ->
            "Failed to delete from Google Sheets: transport error"
      [] fn = "clear_google_sheet_rows" -> "raise"

\* append_job_to_google_sheets.  failing/after: the transport raises on the
\* call that follows `after` successful ones.  Yields the sheet, the writes
\* made, whether the transport raised inside the try, and the message.
append_job_to_google_sheets(sh, data, created_iso, utcnow, failing, after) ==
    LET writes == append_writes(sh)
        row == sheet_row(data, created_iso, utcnow)
        raised == failing /\ after < ReadCalls + Len(writes)
        done == IF raised THEN Max(after - ReadCalls, 0) ELSE Len(writes)
    IN [sheet |-> apply_writes(sh, writes, done, row),
        calls |-> SubSeq(writes, 1, done),
        raised |-> raised,
        msg |-> IF raised THEN on_exception("append_job_to_google_sheets")
                ELSE "Job appended to Google Sheets."]

\* variant: the scan matching on the job link alone
rows_to_delete_by_link(data, user_email, job_link) ==
    LET job_link_col == column_of(data[1], "Job Link")
    IN { i \in 2..Len(data) :
            /\ Len(data[i]) >= job_link_col
            /\ data[i][job_link_col] = job_link }

\* the rows the scan of delete_job_from_google_sheets collects
rows_to_delete(data, user_email, job_link) ==
    LET user_email_col == column_of(data[1], "User Email")
        job_link_col == column_of(data[1], "Job Link")
    IN { i \in 2..Len(data) :
            /\ Len(data[i]) >= Max(user_email_col, job_link_col)
            /\ data[i][user_email_col] = user_email
            /\ data[i][job_link_col] = job_link }

\* delete_job_from_google_sheets
delete_job_from_google_sheets(sh, user_email, job_link, failing, after) ==
    IF failing /\ after < ReadCalls
    THEN [sheet |-> sh, calls |-> <<>>, raised |-> TRUE,
          msg |-> on_exception("delete_job_from_google_sheets")]
    ELSE IF sh = <<>> \/ Len(sh) <= 1
    THEN [sheet |-> sh, calls |-> <<>>, raised |-> FALSE,
          msg |-> "No rows to delete in Google Sheet."]
    ELSE IF column_of(sh[1], "User Email") = 0 \/ column_of(sh[1], "Job Link") = 0
    THEN [sheet |-> sh, calls |-> <<>>, raised |-> FALSE,
          msg |-> "Required columns not found in Google Sheet."]
    ELSE LET idxs == sorted_reverse(rows_to_delete(sh, user_email, job_link))
             raised == failing /\ after < ReadCalls + Len(idxs)
             done == IF raised THEN after - ReadCalls ELSE Len(idxs)
         IN IF idxs = <<>>
            THEN [sheet |-> sh, calls |-> <<>>, raised |-> FALSE,
                  msg |-> "No matching row found in Google Sheet."]
            ELSE [sheet |-> delete_loop(sh, idxs, done),
                  calls |-> SubSeq(idxs, 1, done),
                  raised |-> raised,
                  msg |-> IF raised
                          THEN on_exception("delete_job_from_google_sheets")
                          ELSE "Deleted from Google Sheet."]

\* the record of a mirror call in `last`
Mirror(fn, args, r) ==
    <<[fn |-> fn, args |-> args, msg |-> r.msg, calls |-> r.calls,
       raised |-> r.raised]>>

\* the transport outcomes: no failure, or a failure after 0..MaxAfter calls
Transport == {<<FALSE, 0>>} \cup {<<TRUE, n>> : n \in 0..MaxAfter}

\* clear_google_sheet_rows: clear, then the header; an error is re-raised
clear_google_sheet_rows(failing, after) ==
    LET writes == <<"clear", "append_header">>
        raised == failing /\ after < 1 + Len(writes)
        done == IF raised THEN Max(after - 1, 0) ELSE Len(writes)
        r == [calls |-> SubSeq(writes, 1, done), raised |-> raised,
              msg |-> IF raised THEN on_exception("clear_google_sheet_rows")
                      ELSE ""]
    IN /\ failing => after <= Len(writes)
       /\ sheet' = apply_writes(sheet, writes, done, <<>>)
       /\ last' = Call("clear_google_sheet_rows", <<>>, r.msg,
                       Mirror("clear_google_sheet_rows", <<>>, r))
       /\ UNCHANGED <<db, clock>>

\* clear_users.py: init_db, then clear_google_sheet_rows inside try/except;
\* nothing is left of an exception but a printed line
clear_users(failing, after) ==
    LET writes == <<"clear", "append_header">>
        raised == failing /\ after < 1 + Len(writes)
        done == IF raised THEN Max(after - 1, 0) ELSE Len(writes)
        r == [calls |-> SubSeq(writes, 1, done), raised |-> raised,
              msg |-> IF raised THEN on_exception("clear_google_sheet_rows")
                      ELSE ""]
    IN /\ failing => after <= Len(writes)
       /\ users' = {}
       /\ users_seq' = 0
       /\ user_profiles' = {}
       /\ user_profiles_seq' = 0
       /\ job_applications' = {}
       /\ job_applications_seq' = 0
       /\ sheet' = apply_writes(sheet, writes, done, <<>>)
       /\ last' = Call("clear_users", <<>>, "",
                       Mirror("clear_google_sheet_rows", <<>>, r))
       /\ UNCHANGED clock

\* a call of append_job_to_google_sheets on the sheet as it stands
AppendCall(data, failing, after) ==
    LET created_iso == isoformat(clock)
        r == append_job_to_google_sheets(sheet, data, created_iso, clock,
                                         failing, after)
    IN /\ Len(sheet) < MaxSheetRows
       /\ sheet' = r.sheet
       /\ last' = Call("append_job_to_google_sheets", <<data, created_iso>>,
                       r.msg,
                       Mirror("append_job_to_google_sheets",
                              <<data, created_iso>>, r))
       /\ UNCHANGED <<db, clock>>

\* a call of delete_job_from_google_sheets on the sheet as it stands
DeleteCall(user_email, job_link, failing, after) ==
    LET r == delete_job_from_google_sheets(sheet, user_email, job_link,
                                           failing, after)
    IN /\ sheet' = r.sheet
       /\ last' = Call("delete_job_from_google_sheets",
                       <<user_email, job_link>>, r.msg,
                       Mirror("delete_job_from_google_sheets",
                              <<user_email, job_link>>, r))
       /\ UNCHANGED <<db, clock>>

-----------------------------------------------------------------------------
(* Job applications (local + Google Sheets) *)

JobDicts ==
    { [job_link |-> "http://job/1"],
      [job_link |-> "http://job/2", status |-> "Applied",
       company_name |-> "Acme"] }

\* the nine data columns as save_job_application and update_job_application
\* bind them
job_columns(data) ==
    [job_link |-> Get(data, "job_link", ""),
     company_name |-> Get(data, "company_name", ""),
     job_role |-> Get(data, "job_role", ""),
     job_location |-> Get(data, "job_location", ""),
     status |-> Get(data, "status", ""),
     recruiter_name |-> Get(data, "recruiter_name", ""),
     recruiter_email |-> Get(data, "recruiter_email", ""),
     recruiter_phone |-> Get(data, "recruiter_phone", ""),
     comments |-> Get(data, "comments", "")]

\* SELECT id FROM job_applications WHERE user_email = ? AND job_link = ?
job_exists_for_user_result(user_email, job_link) ==
    \E j \in job_applications :
        j.user_email = user_email /\ j.job_link = job_link

job_exists_for_user(user_email, job_link) ==
    /\ last' = Call("job_exists_for_user", <<user_email, job_link>>,
                    job_exists_for_user_result(user_email, job_link), <<>>)
    /\ UNCHANGED <<db, sheet, clock>>

\* variant: the insert turned away by a UNIQUE (user_email, job_link) index
save_refused_unique(data) ==
    job_exists_for_user_result(data["user_email"], data["job_link"])

\* whether save_job_application turns the record away before the insert:
\* the definition in force (the module's second) makes no check
save_refused(data) == FALSE

\* variant: the mirror's failure handed to the caller
save_result_gated(gs_msg) ==
    IF gs_msg = "Job appended to Google Sheets."
    THEN "Job application saved successfully!"
    ELSE gs_msg

\* what save_job_application returns once the mirror has answered gs_msg
save_result(gs_msg) == "Job application saved successfully!"

\* what delete_job_application_by_id returns once the mirror has answered
delete_result(sheet_msg) ==
    "Job application deleted successfully (" \o sheet_msg \o ")"

\* variant: WHERE id >= ? in place of WHERE id = ?
found_job_from(job_id) == {j \in job_applications : j.id >= job_id}

\* SELECT job_link, user_email FROM job_applications WHERE id = ?
found_job(job_id) == {j \in job_applications : j.id = job_id}

save_job_application(data, failing, after) ==
    IF save_refused(data)
    THEN /\ last' = Call("save_job_application", <<data>>,
                         "Duplicate job link for this user. Record not added.",
                         <<>>)
         /\ UNCHANGED <<db, sheet, clock>>
    ELSE LET now_iso == isoformat(clock)
             r == append_job_to_google_sheets(sheet, data, now_iso, clock,
                                              failing, after)
         IN /\ job_applications_seq < MaxJobs
            /\ Len(sheet) < MaxSheetRows
            /\ job_applications' = job_applications \cup
                    {[id |-> job_applications_seq + 1,
                      user_email |-> data["user_email"],
                      created_at |-> now_iso] @@ job_columns(data)}
            /\ job_applications_seq' = job_applications_seq + 1
            /\ sheet' = r.sheet
            /\ last' = Call("save_job_application", <<data>>,
                            save_result(r.msg),
                            Mirror("append_job_to_google_sheets",
                                   <<data, now_iso>>, r))
            /\ UNCHANGED <<users, users_seq, user_profiles,
                           user_profiles_seq, clock>>

\* variant: ORDER BY id ASC
RECURSIVE order_by_id_asc(_)
order_by_id_asc(rows) ==
    IF rows = {} THEN <<>>
    ELSE LET low == CHOOSE r \in rows : \A q \in rows : r.id <= q.id IN
         <<low>> \o order_by_id_asc(rows \ {low})

\* SELECT ... FROM job_applications WHERE user_email = ? ORDER BY id DESC
RECURSIVE order_by_id_desc(_)
order_by_id_desc(rows) ==
    IF rows = {} THEN <<>>
    ELSE LET top == CHOOSE r \in rows : \A q \in rows : q.id <= r.id IN
         <<top>> \o order_by_id_desc(rows \ {top})

\* the columns get_user_applications selects
ListedColumns ==
    {"id", "job_link", "company_name", "job_role", "job_location", "status",
     "recruiter_name", "recruiter_email", "recruiter_phone", "comments",
     "created_at"}

get_user_applications_result(user_email) ==
    LET rows == order_by_id_desc(
                    {j \in job_applications : j.user_email = user_email})
    IN [i \in 1..Len(rows) |-> [k \in ListedColumns |-> rows[i][k]]]

get_user_applications(user_email) ==
    /\ last' = Call("get_user_applications", <<user_email>>,
                    get_user_applications_result(user_email), <<>>)
    /\ UNCHANGED <<db, sheet, clock>>

\* UPDATE job_applications SET job_link = ?, ... WHERE id = ?
update_job_application(job_id, data) ==
    /\ job_applications' =
            { IF j.id = job_id THEN job_columns(data) @@ j ELSE j :
                j \in job_applications }
    /\ last' = Call("update_job_application", <<job_id, data>>,
                    "Job updated locally.", <<>>)
    /\ UNCHANGED <<users, users_seq, user_profiles, user_profiles_seq,
                   job_applications_seq, sheet, clock>>

delete_job_application_by_id(job_id, failing, after) ==
    LET found == found_job(job_id) IN
    IF found = {}
    THEN /\ last' = Call("delete_job_application_by_id", <<job_id>>,
                         "No such job record found.", <<>>)
         /\ UNCHANGED <<db, sheet, clock>>
    ELSE LET row == CHOOSE j \in found : TRUE
             r == delete_job_from_google_sheets(sheet, row.user_email,
                                                row.job_link, failing, after)
         IN /\ job_applications' = job_applications \ {row}
            /\ sheet' = r.sheet
            /\ last' = Call("delete_job_application_by_id", <<job_id>>,
                            delete_result(r.msg),
                            Mirror("delete_job_from_google_sheets",
                                   <<row.user_email, row.job_link>>, r))
            /\ UNCHANGED <<users, users_seq, user_profiles, user_profiles_seq,
                           job_applications_seq, clock>>

\* variant: the mirror asked with the two values the other way round
mirror_key_swapped(row) == <<row.job_link, row.user_email>>

\* what delete_job_application_by_id hands to delete_job_from_google_sheets
mirror_key(row) == <<row.user_email, row.job_link>>

\* delete_job_application_by_id up to conn.close(): the SELECT, and for a row
\* found the DELETE and the commit; caller c then stands before the mirror
\* call with job_link and user_email in its locals
delete_commit(c, job_id) ==
    LET found == found_job(job_id) IN
    /\ inflight[c] = Idle
    /\ IF found = {}
       THEN /\ last' = Call("delete_job_application_by_id", <<job_id>>,
                            "No such job record found.", <<>>)
            /\ UNCHANGED <<db, inflight>>
       ELSE LET row == CHOOSE j \in found : TRUE IN
            /\ job_applications' = job_applications \ {row}
            /\ inflight' = [inflight EXCEPT ![c] =
                                [at |-> "mirror", job_id |-> job_id,
                                 key |-> mirror_key(row)]]
            /\ last' = Call("commit", <<job_id>>, "", <<>>)
            /\ UNCHANGED <<users, users_seq, user_profiles, user_profiles_seq,
                           job_applications_seq>>
    /\ UNCHANGED <<sheet, clock, session, request>>

\* the rest of delete_job_application_by_id: the mirror call and the return
delete_mirror(c, failing, after) ==
    /\ inflight[c].at = "mirror"
    /\ LET key == inflight[c].key
           r == delete_job_from_google_sheets(sheet, key[1], key[2],
                                              failing, after)
       IN /\ sheet' = r.sheet
          /\ last' = Call("delete_job_application_by_id",
                          <<inflight[c].job_id>>, delete_result(r.msg),
                          Mirror("delete_job_from_google_sheets", key, r))
    /\ inflight' = [inflight EXCEPT ![c] = Idle]
    /\ UNCHANGED <<db, clock, session, request>>

-----------------------------------------------------------------------------
(* The Flask routes *)

LoginFirst == "Please log in first!"

\* variant: the guard of the routes left out
logged_in_always(c) == TRUE

\* "user" in session
logged_in(c) == session[c] # NoUser

\* what the handler answers: the text it flashes or the page it renders
Answer(route, c, answer) ==
    request' = [route |-> route, client |-> c, answer |-> answer]

\* the guard of a route taken: the flash and the redirect to login
login_first(route, c) ==
    /\ Answer(route, c, LoginFirst)
    /\ last' = NoCall
    /\ UNCHANGED <<db, sheet, clock, session, inflight>>

\* POST /register
register(c, email, password, salt) ==
    /\ inflight[c] = Idle
    /\ register_user(email, password, salt)
    /\ Answer("register", c, register_result(email, password))
    /\ UNCHANGED <<session, inflight>>

\* POST /login
login(c, email, password) ==
    LET msg == login_result(email, password) IN
    /\ inflight[c] = Idle
    /\ login_user(email, password)
    /\ session' = IF msg = "Login successful!"
                  THEN [session EXCEPT ![c] = email]
                  ELSE session
    /\ Answer("login", c, msg)
    /\ UNCHANGED inflight

\* GET /logout
logout(c) ==
    /\ inflight[c] = Idle
    /\ session' = [session EXCEPT ![c] = NoUser]
    /\ last' = NoCall
    /\ Answer("logout", c, "Logged out successfully.")
    /\ UNCHANGED <<db, sheet, clock, inflight>>

\* request.form of the dashboard page; experience_months is text
DashboardForms ==
    { [first_name |-> "Ann", experience_months |-> "6"],
      [first_name |-> "", city |-> "Pune", experience_months |-> "12"],
      [first_name |-> "Bob"],
      [first_name |-> "Ann", experience_months |-> "six"] }

\* int(text): the number a text denotes; no number for the others
IntTexts == {"6", "12"}
int(text) == CASE text = "6" -> 6 [] text = "12" -> 12

\* int(request.form.get("experience_months", 0)) raising ValueError
ValueError(form) ==
    /\ "experience_months" \in DOMAIN form
    /\ form["experience_months"] \notin IntTexts

\* the dict dashboard builds from the session and the form
dashboard_data(user, form) ==
    [user_email |-> user,
     first_name |-> Get(form, "first_name", ""),
     last_name |-> Get(form, "last_name", ""),
     address |-> Get(form, "address", ""),
     city |-> Get(form, "city", ""),
     mobile_number |-> Get(form, "mobile_number", ""),
     github_url |-> Get(form, "github_url", ""),
     job_position |-> Get(form, "job_position", ""),
     experience_months |-> IF "experience_months" \in DOMAIN form
                           THEN int(form["experience_months"])
                           ELSE 0,
     skills |-> Get(form, "skills", ""),
     preferred_locations |-> Get(form, "preferred_locations", "")]

\* variant: the branch of dashboard taken on the first name of the profile
has_profile_named(profile_data) ==
    profile_data # <<>> /\ profile_data["first_name"] # ""

\* "if profile_data:" a dict is true when it has a key
has_profile(profile_data) == profile_data # <<>>

\* /dashboard
dashboard(c, method, form) ==
    /\ inflight[c] = Idle
    /\ IF ~logged_in(c) THEN login_first("dashboard", c)
       ELSE LET user == session[c]
                profile_data == get_profile_result(user)
            IN /\ IF method = "GET"
                  THEN /\ get_profile(user)
                       /\ Answer("dashboard", c, "dashboard.html")
                  ELSE IF ValueError(form)
                  THEN /\ get_profile(user)
                       /\ Answer("dashboard", c, "ValueError")
                  ELSE /\ IF has_profile(profile_data)
                          THEN update_profile(user, dashboard_data(user, form))
                          ELSE save_profile(dashboard_data(user, form))
                       /\ Answer("dashboard", c, "Profile saved successfully!")
               /\ UNCHANGED <<session, inflight>>

\* request.form of the job details page
JobForms ==
    { [job_link |-> "http://job/1"],
      [job_link |-> "http://job/2", status |-> "Applied"] }

\* the dict job_details builds from the session and the form
job_details_data(user, form) ==
    [user_email |-> user,
     job_link |-> Get(form, "job_link", ""),
     company_name |-> Get(form, "company_name", ""),
     job_role |-> Get(form, "job_role", ""),
     job_location |-> Get(form, "job_location", ""),
     status |-> Get(form, "status", ""),
     recruiter_name |-> Get(form, "recruiter_name", ""),
     recruiter_email |-> Get(form, "recruiter_email", ""),
     recruiter_phone |-> Get(form, "recruiter_phone", ""),
     comments |-> Get(form, "comments", "")]

DuplicateLink == "Duplicate Job Link! Record not added."
FormFilled == "Form filled successfully!"

\* /job_details, one request at a time
job_details(c, method, form, failing, after) ==
    /\ inflight[c] = Idle
    /\ IF ~logged_in(c) THEN login_first("job_details", c)
       ELSE LET data == job_details_data(session[c], form) IN
            /\ IF method = "GET"
               THEN /\ Answer("job_details", c, "job_details.html")
                    /\ last' = NoCall
                    /\ UNCHANGED <<db, sheet, clock>>
               ELSE IF job_exists_for_user_result(data.user_email,
                                                  data.job_link)
               THEN /\ job_exists_for_user(data.user_email, data.job_link)
                    /\ Answer("job_details", c, DuplicateLink)
               ELSE /\ save_job_application(data, failing, after)
                    /\ Answer("job_details", c, FormFilled)
            /\ UNCHANGED <<session, inflight>>

\* POST /job_details up to the answer of job_exists_for_user; a request
\* that finds no row stands before its save_job_application call
job_details_check(c, form) ==
    /\ inflight[c] = Idle
    /\ logged_in(c)
    /\ LET data == job_details_data(session[c], form) IN
       /\ job_exists_for_user(data.user_email, data.job_link)
       /\ IF job_exists_for_user_result(data.user_email, data.job_link)
          THEN /\ Answer("job_details", c, DuplicateLink)
               /\ UNCHANGED inflight
          ELSE /\ inflight' = [inflight EXCEPT ![c] =
                                   [at |-> "save", data |-> data]]
               /\ UNCHANGED request
    /\ UNCHANGED session

\* the rest of POST /job_details: save_job_application and the page
job_details_save(c, failing, after) ==
    /\ inflight[c].at = "save"
    /\ save_job_application(inflight[c].data, failing, after)
    /\ Answer("job_details", c, FormFilled)
    /\ inflight' = [inflight EXCEPT ![c] = Idle]
    /\ UNCHANGED session

\* GET /applications
applications(c) ==
    /\ inflight[c] = Idle
    /\ IF ~logged_in(c) THEN login_first("applications", c)
       ELSE /\ get_user_applications(session[c])
            /\ Answer("applications", c, "applications.html")
            /\ UNCHANGED <<session, inflight>>

\* POST /delete_job/<job_id>
delete_job(c, job_id, failing, after) ==
    /\ inflight[c] = Idle
    /\ IF ~logged_in(c) THEN login_first("delete_job", c)
       ELSE /\ delete_job_application_by_id(job_id, failing, after)
            /\ Answer("delete_job", c, last'.ret)
            /\ UNCHANGED <<session, inflight>>

\* GET /profile
profile(c) ==
    /\ inflight[c] = Idle
    /\ IF ~logged_in(c) THEN login_first("profile", c)
       ELSE /\ get_profile(session[c])
            /\ Answer("profile", c,
                      IF get_profile_result(session[c]) = <<>>
                      THEN "No profile found. Please fill your details."
                      ELSE "profile.html")
            /\ UNCHANGED <<session, inflight>>

\* time passes between calls
Tick ==
    /\ clock < MaxClock
    /\ clock' = clock + 1
    /\ last' = NoCall
    /\ UNCHANGED <<db, sheet>>

-----------------------------------------------------------------------------
Init ==
    /\ users = {}
    /\ users_seq = 0
    /\ user_profiles = {}
    /\ user_profiles_seq = 0
    /\ job_applications = {}
    /\ job_applications_seq = 0
    /\ sheet = <<HEADERS>>
    /\ clock = 0
    /\ last = NoCall
    /\ session = [c \in Clients |-> NoUser]
    /\ inflight = [c \in Clients |-> Idle]
    /\ request = NoRequest

NextCred ==
    \/ \E e \in Emails \cup BadEmails, p \in Passwords, s \in Salts :
            register_user(e, p, s) /\ UNCHANGED web
    \/ \E e \in Emails \cup BadEmails, p \in Passwords : login_user(e, p)
            /\ UNCHANGED web
    \/ init_db /\ UNCHANGED web
    \/ Tick /\ UNCHANGED web

SpecCred == Init /\ [][NextCred]_vars

NextJobs ==
    \/ \E e \in Emails, d \in JobDicts, t \in Transport :
            save_job_application([user_email |-> e] @@ d, t[1], t[2])
            /\ UNCHANGED web
    \/ \E id \in JobIds, d \in JobDicts : update_job_application(id, d)
            /\ UNCHANGED web
    \/ \E id \in JobIds, t \in Transport :
            delete_job_application_by_id(id, t[1], t[2]) /\ UNCHANGED web
    \/ \E e \in Emails, l \in Links : job_exists_for_user(e, l)
            /\ UNCHANGED web
    \/ \E e \in Emails : get_user_applications(e) /\ UNCHANGED web
    \/ init_db /\ UNCHANGED web
    \/ Tick /\ UNCHANGED web

SpecJobs == Init /\ [][NextJobs]_vars

\* create, delete and the existence query, the transport failing at will
NextStore ==
    \/ \E e \in Emails, d \in JobDicts, t \in Transport :
            save_job_application([user_email |-> e] @@ d, t[1], t[2])
            /\ UNCHANGED web
    \/ \E id \in JobIds, t \in Transport :
            delete_job_application_by_id(id, t[1], t[2]) /\ UNCHANGED web
    \/ \E e \in Emails, l \in Links : job_exists_for_user(e, l)
            /\ UNCHANGED web

SpecStore == Init /\ [][NextStore]_vars

\* create, delete and the listing as time passes, the transport never failing
NextMirror ==
    \/ \E e \in Emails, d \in JobDicts :
            save_job_application([user_email |-> e] @@ d, FALSE, 0)
            /\ UNCHANGED web
    \/ \E id \in JobIds : delete_job_application_by_id(id, FALSE, 0)
            /\ UNCHANGED web
    \/ \E e \in Emails : get_user_applications(e) /\ UNCHANGED web
    \/ Tick /\ UNCHANGED web

SpecMirror == Init /\ [][NextMirror]_vars

\* sheets as a person may have left them: the first row, then the data rows
HeaderInputs ==
    { HEADERS,
      [i \in 1..Len(HEADERS) |-> IF i = 1 THEN "Email" ELSE HEADERS[i]],
      [i \in 1..Len(HEADERS) |-> IF i = 2 THEN "Link" ELSE HEADERS[i]],
      [i \in 1..Len(HEADERS) |->
            IF i = 1 THEN " User Email "
            ELSE IF i = 2 THEN "Job Link " ELSE HEADERS[i]],
      [i \in 1..Len(HEADERS) |->
            IF i = 1 THEN HEADERS[2]
            ELSE IF i = 2 THEN HEADERS[1] ELSE HEADERS[i]],
      Append(HEADERS, "Notes"),
      <<"User Email", "Job Link">> }

RowInputs ==
    { sheet_row([user_email |-> e, job_link |-> l], isoformat(0), 0) :
        e \in Emails, l \in Links } \cup {<<"a@x.com">>}

SheetInputs ==
    {<<>>} \cup
    UNION { { <<h>> \o rows : h \in HeaderInputs } :
              rows \in UNION { [1..n -> RowInputs] :
                                 n \in 0..(MaxSheetRows - 1) } }

InitSheet ==
    /\ users = {}
    /\ users_seq = 0
    /\ user_profiles = {}
    /\ user_profiles_seq = 0
    /\ job_applications = {}
    /\ job_applications_seq = 0
    /\ sheet \in SheetInputs
    /\ clock = 0
    /\ last = NoCall
    /\ session = [c \in Clients |-> NoUser]
    /\ inflight = [c \in Clients |-> Idle]
    /\ request = NoRequest

NextSheet ==
    \/ \E e \in Emails, d \in JobDicts, t \in Transport :
            AppendCall([user_email |-> e] @@ d, t[1], t[2]) /\ UNCHANGED web
    \/ \E e \in Emails, l \in Links, t \in Transport :
            DeleteCall(e, l, t[1], t[2]) /\ UNCHANGED web
    \/ \E t \in Transport : clear_google_sheet_rows(t[1], t[2])
            /\ UNCHANGED web

SpecSheet == InitSheet /\ [][NextSheet]_vars

NextProfile ==
    \/ \E e \in Emails, d \in ProfileDicts :
            save_profile([user_email |-> e] @@ d) /\ UNCHANGED web
    \/ \E e \in Emails, d \in ProfileDicts : update_profile(e, d)
            /\ UNCHANGED web
    \/ \E e \in Emails : get_profile(e) /\ UNCHANGED web
    \/ init_db /\ UNCHANGED web
    \/ Tick /\ UNCHANGED web

SpecProfile == Init /\ [][NextProfile]_vars

\* the routes, each request served whole
NextWeb ==
    \/ \E c \in Clients, e \in Emails : register(c, e, "password1", "s1")
    \/ \E c \in Clients, e \in Emails, p \in {"password1", "hunter2000"} :
            login(c, e, p)
    \/ \E c \in Clients : logout(c)
    \/ \E c \in Clients, m \in {"GET", "POST"} :
            dashboard(c, m, [first_name |-> "Ann", experience_months |-> "6"])
    \/ \E c \in Clients, m \in {"GET", "POST"} :
            job_details(c, m, [job_link |-> "http://job/1"], FALSE, 0)
    \/ \E c \in Clients : applications(c)
    \/ \E c \in Clients, id \in JobIds : delete_job(c, id, FALSE, 0)
    \/ \E c \in Clients : profile(c)

SpecWeb == Init /\ [][NextWeb]_vars

\* the routes that reach user_profiles, each request served whole
NextDashboard ==
    \/ \E c \in Clients, e \in Emails : register(c, e, "password1", "s1")
    \/ \E c \in Clients, e \in Emails : login(c, e, "password1")
    \/ \E c \in Clients : logout(c)
    \/ \E c \in Clients, m \in {"GET", "POST"}, f \in DashboardForms :
            dashboard(c, m, f)
    \/ \E c \in Clients : profile(c)

SpecDashboard == Init /\ [][NextDashboard]_vars

\* POST /job_details statement by statement, two requests at once
NextRace ==
    \/ \E c \in Clients, e \in Emails : register(c, e, "password1", "s1")
    \/ \E c \in Clients, e \in Emails : login(c, e, "password1")
    \/ \E c \in Clients, f \in JobForms : job_details_check(c, f)
    \/ \E c \in Clients, t \in {<<FALSE, 0>>, <<TRUE, 0>>} :
            job_details_save(c, t[1], t[2])

SpecRace == Init /\ [][NextRace]_vars

\* delete_job_application_by_id statement by statement, two callers at once,
\* among saves
NextDelete ==
    \/ \E e \in Emails, l \in Links :
            save_job_application([user_email |-> e, job_link |-> l], FALSE, 0)
            /\ UNCHANGED web
    \/ \E c \in Clients, id \in JobIds : delete_commit(c, id)
    \/ \E c \in Clients, t \in Transport : delete_mirror(c, t[1], t[2])

SpecDelete == Init /\ [][NextDelete]_vars

\* the entry points the request layer, the administrative script and the
\* start of the server (init_db) use: both users register and log in, one of
\* them writes a profile and jobs
NextExposed ==
    \/ \E e \in Emails : register_user(e, "password1", "s1") /\ UNCHANGED web
    \/ \E e \in Emails, p \in {"password1", "hunter2000"} : login_user(e, p)
            /\ UNCHANGED web
    \/ get_profile("a@x.com") /\ UNCHANGED web
    \/ save_profile([user_email |-> "a@x.com", first_name |-> "Ann"])
            /\ UNCHANGED web
    \/ update_profile("a@x.com", [first_name |-> "Bob"]) /\ UNCHANGED web
    \/ save_job_application([user_email |-> "a@x.com",
                              job_link |-> "http://job/1"], FALSE, 0)
            /\ UNCHANGED web
    \/ get_user_applications("a@x.com") /\ UNCHANGED web
    \/ \E id \in JobIds : delete_job_application_by_id(id, FALSE, 0)
            /\ UNCHANGED web
    \/ \E t \in {<<FALSE, 0>>, <<TRUE, 0>>} : clear_users(t[1], t[2])
            /\ UNCHANGED web
    \/ init_db /\ UNCHANGED web

SpecExposed == Init /\ [][NextExposed]_vars

\* every backend function and every route, from the state clear_users.py
\* leaves
Next ==
    \/ NextCred \/ NextProfile \/ NextJobs \/ NextSheet \/ NextExposed
    \/ NextWeb \/ NextDashboard \/ NextRace \/ NextDelete

Spec == Init /\ [][Next]_vars

-----------------------------------------------------------------------------
(* Properties *)

Saved == "Job application saved successfully!"
Duplicate == "Duplicate job link for this user. Record not added."
TransportFailed(msg) ==
    msg \in {"Failed to append job to Google Sheets: transport error",
             "Failed to delete from Google Sheets: transport error"}

\* the stored rows holding the pair
RowsWith(rows, user_email, job_link) ==
    {j \in rows : j.user_email = user_email /\ j.job_link = job_link}

\* C1: in every reachable state of the job-application operations (save,
\* update, delete, init_db) no two stored job_applications rows hold the same
\* (user_email, job_link) pair.
C1_UniquePairs ==
    \A j1, j2 \in job_applications :
        (j1.user_email = j2.user_email /\ j1.job_link = j2.job_link) => j1 = j2

\* C2: a save_job_application that reports success leaves
\* job_exists_for_user true of its pair, and a save_job_application of a pair
\* already stored returns the duplicate error and leaves the number of rows
\* as it was.
C2_CreateThenDuplicate ==
    [][last'.op = "save_job_application" =>
        LET user_email == last'.args[1]["user_email"]
            job_link == Get(last'.args[1], "job_link", "")
        IN /\ last'.ret = Saved =>
                RowsWith(job_applications', user_email, job_link) # {}
           /\ RowsWith(job_applications, user_email, job_link) # {} =>
                /\ last'.ret = Duplicate
                /\ Cardinality(job_applications') =
                        Cardinality(job_applications)]_vars

\* C3: whatever the mirror answers, a create that reaches the mirror has
\* inserted its row and returns the success result, and a delete of an
\* existing id has removed that row and returns the success result; the row
\* is not put back or taken out again on a mirror failure.
C3_MirrorOutcomeIgnored ==
    [][/\ (last'.op = "save_job_application" /\ last'.gs # <<>>) =>
            /\ last'.ret = Saved
            /\ \E j \in job_applications' \ job_applications :
                    /\ j.user_email = last'.args[1]["user_email"]
                    /\ j.job_link = Get(last'.args[1], "job_link", "")
                    /\ job_applications' = job_applications \cup {j}
       /\ (/\ last'.op = "delete_job_application_by_id"
           /\ \E j \in job_applications : j.id = last'.args[1]) =>
            /\ last'.gs # <<>>
            /\ last'.ret = "Job application deleted successfully ("
                                \o last'.gs[1].msg \o ")"
            /\ \E j \in job_applications :
                    /\ j.id = last'.args[1]
                    /\ job_applications' = job_applications \ {j}]_vars

\* C3 witness: a delete whose mirror call failed, the row gone all the same
C3_Witness ==
    /\ last.op = "delete_job_application_by_id"
    /\ last.gs # <<>>
    /\ TransportFailed(last.gs[1].msg)
    /\ \A j \in job_applications : j.id # last.args[1]

\* C4: delete_job_application_by_id with an id no row has returns the
\* not-found result, leaves every table as it was and makes no mirror call.
C4_DeleteMissingId ==
    [][(/\ last'.op = "delete_job_application_by_id"
        /\ \A j \in job_applications : j.id # last'.args[1]) =>
            /\ last'.ret = "No such job record found."
            /\ job_applications' = job_applications
            /\ job_applications_seq' = job_applications_seq
            /\ last'.gs = <<>>
            /\ sheet' = sheet]_vars

\* C4 witness: the not-found result, with other rows stored
C4_Witness ==
    /\ last.op = "delete_job_application_by_id"
    /\ last.ret = "No such job record found."
    /\ job_applications # {}

\* C5 as stated: register_user with an email already registered returns the
\* duplicate-email error for every password, short ones included, and leaves
\* the users table as it was.
C5_DuplicateWhateverPassword ==
    [][(/\ last'.op = "register_user"
        /\ \E u \in users : u.email = last'.args[1]) =>
            /\ last'.ret = "Email already registered."
            /\ users' = users]_vars

\* C5 as amended: register_user with an email already registered returns the
\* duplicate-email error for every password of at least 8 characters and the
\* password-length error for every shorter one; either way the users table is
\* as it was.
C5_DuplicateOrShortPassword ==
    [][(/\ last'.op = "register_user"
        /\ \E u \in users : u.email = last'.args[1]) =>
            /\ users' = users
            /\ users_seq' = users_seq
            /\ Len(last'.args[2]) >= 8 =>
                    last'.ret = "Email already registered."
            /\ Len(last'.args[2]) < 8 =>
                    last'.ret = "Password must be at least 8 characters."]_vars

\* C5 witness: the duplicate-email error for a password other than the one
\* the email was registered with
C5_Witness ==
    /\ last.op = "register_user"
    /\ last.ret = "Email already registered."
    /\ \E u \in users :
            /\ u.email = last.args[1]
            /\ u.password_hash.digest[2] # last.args[2]

\* C6: login_user returns the not-found result exactly when no users row has
\* the email, the wrong-password result exactly when a row has it and the
\* password does not hash to the stored hash under the stored salt, success
\* otherwise; the users table is as it was.
C6_LoginResult ==
    [][last'.op = "login_user" =>
        LET email == last'.args[1]
            password == last'.args[2]
            known == \E u \in users : u.email = email
            matches == \E u \in users :
                            /\ u.email = email
                            /\ u.password_hash =
                                    hashpw(password, u.password_hash.salt)
        IN /\ (last'.ret = "No account found with that email.") <=> ~known
           /\ (last'.ret = "Incorrect password.") <=> (known /\ ~matches)
           /\ (last'.ret = "Login successful!") <=> (known /\ matches)
           /\ users' = users
           /\ users_seq' = users_seq]_vars

\* C6 witness: the wrong-password result
C6_Witness ==
    /\ last.op = "login_user"
    /\ last.ret = "Incorrect password."

\* C7: get_user_applications returns exactly the stored rows of the email,
\* each once with its columns, in strictly descending id order, no row
\* created later than one listed before it.
C7_ListingOrder ==
    last.op = "get_user_applications" =>
        LET mine == {j \in job_applications : j.user_email = last.args[1]}
            listed == last.ret
        IN /\ Len(listed) = Cardinality(mine)
           /\ \A j \in mine : \E i \in 1..Len(listed) :
                    \A k \in ListedColumns : listed[i][k] = j[k]
           /\ \A i \in 1..Len(listed) : \E j \in mine : j.id = listed[i].id
           /\ \A i, k \in 1..Len(listed) : i < k =>
                    /\ listed[i].id > listed[k].id
                    /\ fromisoformat(listed[i].created_at) >=
                            fromisoformat(listed[k].created_at)

\* C7 witness: a listing of two rows created at different times
C7_Witness ==
    /\ last.op = "get_user_applications"
    /\ Len(last.ret) >= 2
    /\ last.ret[1].created_at # last.ret[2].created_at

\* C8: update_profile for an email with no user_profiles row changes no row
\* and get_profile of that email is still empty; with rows, it rewrites the
\* ten data columns of the row of that email with the highest id and no other
\* row.
C8_UpdateLatestOnly ==
    [][last'.op = "update_profile" =>
        LET user_email == last'.args[1]
            data == last'.args[2]
            mine == {p \in user_profiles : p.user_email = user_email}
        IN /\ user_profiles_seq' = user_profiles_seq
           /\ mine = {} =>
                /\ user_profiles' = user_profiles
                /\ \A e \in Emails :
                        e = user_email => get_profile_result(e)' = <<>>
           /\ mine # {} =>
                \E top \in mine :
                    /\ \A p \in mine : p.id <= top.id
                    /\ user_profiles' = (user_profiles \ {top}) \cup
                            {[k \in DOMAIN top |->
                                IF k \in ProfileColumnNames
                                THEN profile_columns(data)[k]
                                ELSE top[k]]}]_vars

\* C8 witness: an update for an email without a profile, another user's
\* profile stored
C8_Witness ==
    /\ last.op = "update_profile"
    /\ user_profiles # {}
    /\ \A p \in user_profiles : p.user_email # last.args[1]

\* a data row holds the two values under the named columns
RowMatches(header, row, user_email, job_link) ==
    \E c1, c2 \in 1..Len(header) :
        /\ header[c1] = "User Email" /\ header[c2] = "Job Link"
        /\ c1 <= Len(row) /\ c2 <= Len(row)
        /\ row[c1] = user_email /\ row[c2] = job_link

\* the cases of C9
NothingToDelete(sh, user_email, job_link) ==
    \/ sh = <<>>
    \/ Len(sh) = 1
    \/ \A c \in 1..Len(sh[1]) : sh[1][c] # "User Email"
    \/ \A c \in 1..Len(sh[1]) : sh[1][c] # "Job Link"
    \/ \A i \in 2..Len(sh) : ~RowMatches(sh[1], sh[i], user_email, job_link)

\* C9: delete_job_from_google_sheets removes no row and returns a result
\* other than the success result when the sheet is empty, holds only its
\* first row, lacks the User Email or the Job Link column, or has no data row
\* matching both values.
C9_NothingToDelete ==
    [][(/\ last'.op = "delete_job_from_google_sheets"
        /\ NothingToDelete(sheet, last'.args[1], last'.args[2])) =>
            /\ sheet' = sheet
            /\ last'.gs[1].calls = <<>>
            /\ last'.ret # "Deleted from Google Sheet."]_vars

\* C9 witness: the delete on an empty sheet
C9_Witness ==
    /\ last.op = "delete_job_from_google_sheets"
    /\ sheet = <<>>
    /\ last.ret = "No rows to delete in Google Sheet."

\* C10: with no transport failure, after any sequence of creates and deletes
\* from an empty store and a sheet holding the header alone, every
\* (user_email, job_link) pair is held by as many data rows of the sheet as
\* job_applications rows.
C10_SheetMatchesStore ==
    \A e \in Emails, l \in Links :
        Cardinality(RowsWith(job_applications, e, l)) =
            Cardinality({i \in 2..Len(sheet) :
                            sheet[i][1] = e /\ sheet[i][2] = l})

\* the mirror functions
MirrorOps ==
    {"append_job_to_google_sheets", "delete_job_from_google_sheets",
     "clear_google_sheet_rows"}

\* C12 (as stated): whichever of append_job_to_google_sheets,
\* delete_job_from_google_sheets and clear_google_sheet_rows is called and
\* wherever the transport raises, the call returns; no exception reaches the
\* caller.
C12_NoErrorPropagates ==
    last.op \in MirrorOps => last.ret # "raise"

\* C12 (amended): append_job_to_google_sheets and
\* delete_job_from_google_sheets never let an exception out: when the
\* transport raised they return their failure description, and otherwise one
\* of their other results.  clear_google_sheet_rows lets the exception out
\* exactly when the transport raised (its except clause re-raises).
C12_AppendDeleteConvert ==
    /\ last.op = "append_job_to_google_sheets" =>
            /\ last.ret # "raise"
            /\ last.gs[1].raised <=>
                 last.ret = "Failed to append job to Google Sheets: transport error"
    /\ last.op = "delete_job_from_google_sheets" =>
            /\ last.ret # "raise"
            /\ last.gs[1].raised <=>
                 last.ret = "Failed to delete from Google Sheets: transport error"
    /\ last.op = "clear_google_sheet_rows" =>
            (last.gs[1].raised <=> last.ret = "raise")

\* an append whose transport raised after the sheet had been cleared
C12_Witness ==
    /\ last.op = "append_job_to_google_sheets"
    /\ last.gs[1].raised
    /\ last.gs[1].calls = <<"clear">>
    /\ TransportFailed(last.ret)

Appended == "Job appended to Google Sheets."

\* the row an append step wrote: built from the arguments of the call
AppendedRow(call, utcnow) == sheet_row(call.args[1], call.args[2], utcnow)

HeaderAccepted(first_row) ==
    /\ Len(first_row) >= Len(HEADERS)
    /\ \A i \in 1..Len(HEADERS) : strip(first_row[i]) = HEADERS[i]

KeyColumnsPresent(sh) ==
    /\ sh # <<>>
    /\ \E c \in 1..Len(sh[1]) : sh[1][c] = "User Email"
    /\ \E c \in 1..Len(sh[1]) : sh[1][c] = "Job Link"

\* C15: on a sheet whose first row names both key columns, a
\* delete_job_from_google_sheets(user_email, job_link) that meets no transport
\* error removes every data row whose User Email and Job Link cells both
\* equal the given values and no other row, by delete_rows calls in strictly
\* descending row index, one per matching row; the first row and the other
\* rows stay in their order.
C15_DeleteExactlyMatching ==
    [][(/\ last'.op = "delete_job_from_google_sheets"
        /\ ~last'.gs[1].raised
        /\ KeyColumnsPresent(sheet)) =>
          LET user_email == last'.args[1]
              job_link == last'.args[2]
              calls == last'.gs[1].calls
              matching == {i \in 2..Len(sheet) :
                             RowMatches(sheet[1], sheet[i], user_email, job_link)}
              other(row) == ~RowMatches(sheet[1], row, user_email, job_link)
          IN /\ sheet' = <<sheet[1]>> \o SelectSeq(Tail(sheet), other)
             /\ {calls[k] : k \in 1..Len(calls)} = matching
             /\ \A k \in 1..(Len(calls) - 1) : calls[k] > calls[k + 1]]_vars

\* a delete that removed two matching rows, the lower one first
C15_Witness ==
    /\ last.op = "delete_job_from_google_sheets"
    /\ last.ret = "Deleted from Google Sheet."
    /\ last.gs[1].calls = <<3, 2>>
    /\ Len(sheet) = 1

\* C13 (as stated): a users row, once stored, stays in the table as it is
\* across every exposed operation, the full reset included.
C13_UsersRowKept ==
    [][users \subseteq users']_vars

\* C13 (amended): every exposed operation other than the full reset leaves
\* every stored users row (id, email, password hash, created_at) in the
\* table as it is; the full reset (init_db, run by clear_users.py) leaves
\* the users table empty.
C13_UsersRowKeptUntilReset ==
    [][IF last'.op \in {"init_db", "clear_users"}
       THEN users' = {}
       ELSE users \subseteq users']_vars

\* both users registered, and a job row deleted after that
C13_Witness ==
    /\ Cardinality(users) = 2
    /\ last.op = "delete_job_application_by_id"
    /\ last.ret # "No such job record found."

\* C16: delete_job_application_by_id on an id the table holds removes that
\* row and no other and commits, the sheet still untouched; its next step is
\* one call of delete_job_from_google_sheets with the user_email and job_link
\* the removed row held; that step changes no table, and whatever the mirror
\* answers, a transport failure included, the call returns and asks the
\* mirror no second time.
C16_CommitThenOneMirrorDelete ==
    [][/\ last'.op = "commit" =>
            \E c \in Clients, row \in job_applications :
                /\ row.id = last'.args[1]
                /\ job_applications' = job_applications \ {row}
                /\ Cardinality(job_applications') =
                        Cardinality(job_applications) - 1
                /\ UNCHANGED <<users, user_profiles, sheet>>
                /\ inflight[c] = Idle
                /\ inflight'[c].at = "mirror"
                /\ inflight'[c].key = <<row.user_email, row.job_link>>
                /\ \A d \in Clients \ {c} : inflight'[d] = inflight[d]
       /\ (last'.op = "delete_job_application_by_id" /\ last'.gs # <<>>) =>
            \E c \in Clients :
                /\ inflight[c].at = "mirror"
                /\ inflight[c].job_id = last'.args[1]
                /\ found_job(last'.args[1]) = {}
                /\ UNCHANGED db
                /\ Len(last'.gs) = 1
                /\ last'.gs[1].fn = "delete_job_from_google_sheets"
                /\ last'.gs[1].args = inflight[c].key
                /\ inflight'[c] = Idle
                /\ \A d \in Clients \ {c} : inflight'[d] = inflight[d]]_vars

\* a delete whose mirror call failed: the row is gone from the table, its
\* sheet row is still there, and nobody is inside the function any more
C16_Witness ==
    /\ last.op = "delete_job_application_by_id"
    /\ last.gs # <<>>
    /\ last.gs[1].raised
    /\ \A c \in Clients : inflight[c] = Idle
    /\ found_job(last.args[1]) = {}
    /\ \E i \in 2..Len(sheet) :
            RowMatches(sheet[1], sheet[i], last.gs[1].args[1],
                       last.gs[1].args[2])

\* the routes behind the session guard
GuardedRoutes ==
    {"dashboard", "job_details", "applications", "delete_job", "profile"}

\* C17: in every step of the request layer (a) user_profiles, job_applications
\* and the sheet change only when the session of the requesting client holds
\* a user; (b) a session comes to hold a user only by a login request of that
\* client whose login_user call returned success for that email, and loses
\* it only by a logout request of that client, which always clears it;
\* (c) dashboard, job_details, applications, delete_job and profile, asked
\* by a client whose session holds no user, leave every table and the sheet
\* as they were and answer with the redirect to login.
C17_SessionGuardsWrites ==
    [][LET c == request'.client IN
       /\ (\/ user_profiles' # user_profiles
           \/ job_applications' # job_applications
           \/ sheet' # sheet) =>
              /\ request'.route \in {"dashboard", "job_details", "delete_job"}
              /\ session[c] # NoUser
       /\ \A d \in Clients :
            /\ (session'[d] # session[d] /\ session'[d] # NoUser) =>
                  /\ d = c
                  /\ request'.route = "login"
                  /\ last'.op = "login_user"
                  /\ last'.ret = "Login successful!"
                  /\ last'.args[1] = session'[d]
            /\ (session'[d] # session[d] /\ session'[d] = NoUser) =>
                  /\ d = c
                  /\ request'.route = "logout"
       /\ request'.route = "logout" => session'[c] = NoUser
       /\ (request'.route \in GuardedRoutes /\ session[c] = NoUser) =>
              /\ UNCHANGED <<db, sheet, session>>
              /\ last' = NoCall
              /\ request'.answer = LoginFirst]_vars

\* a guarded route refused while the tables hold a job row another client
\* wrote
C17_Witness ==
    /\ request.route = "delete_job"
    /\ request.answer = LoginFirst
    /\ session[request.client] = NoUser
    /\ job_applications # {}

\* C18: a delete_job request leaves in place every job_applications row whose
\* user_email is not the session user of the requesting client, and every
\* sheet row of such a row.
C18_DeleteOwnRowsOnly ==
    [][request'.route = "delete_job" =>
          LET user == session[request'.client] IN
          /\ \A j \in job_applications :
                j.user_email # user => j \in job_applications'
          /\ \A e \in Emails \ {user}, l \in Links :
                Cardinality({i \in 1..Len(sheet') :
                               RowMatches(sheet'[1], sheet'[i], e, l)})
                  = Cardinality({i \in 1..Len(sheet) :
                                   RowMatches(sheet[1], sheet[i], e, l)})]_vars

\* the user_profiles rows of a user
ProfilesOf(rows, user_email) == {p \in rows : p.user_email = user_email}

\* C19: with profiles written by the dashboard route alone, one request at
\* a time, no user ever has two user_profiles rows: the first accepted POST
\* of a user inserts a row, every later one rewrites that row under its id;
\* after an accepted POST get_profile returns the ten values of the dict the
\* route built from the form, and no other request changes what get_profile
\* returns for any user.
C19_OneProfilePerUser ==
    [][/\ \A e \in Emails : Cardinality(ProfilesOf(user_profiles', e)) <= 1
       /\ IF /\ request'.route = "dashboard"
             /\ request'.answer = "Profile saved successfully!"
          THEN LET data == last'.args[Len(last'.args)] IN
               \A e \in Emails : IF e = session[request'.client]
                  THEN /\ data["user_email"] = e
                       /\ Cardinality(ProfilesOf(user_profiles', e)) = 1
                       /\ \A p \in ProfilesOf(user_profiles, e),
                             q \in ProfilesOf(user_profiles', e) : q.id = p.id
                       /\ last'.op = (IF ProfilesOf(user_profiles, e) = {}
                                      THEN "save_profile"
                                      ELSE "update_profile")
                       /\ \A k \in ProfileColumnNames :
                             get_profile_result(e)'[k] = data[k]
                  ELSE ProfilesOf(user_profiles', e) =
                            ProfilesOf(user_profiles, e)
          ELSE \A e \in Emails :
                  get_profile_result(e)' = get_profile_result(e)]_vars

\* an accepted POST over the profile the user already had, a second user
\* holding a row too: still one row for the user, carrying the new values
C19_Witness ==
    /\ request.route = "dashboard"
    /\ last.op = "update_profile"
    /\ \E p \in user_profiles :
            /\ p.user_email = session[request.client]
            /\ p.first_name = "Bob"
            /\ p.city = ""
    /\ user_profiles_seq = 2

\* C11: a POST /job_details that found no row for its (user_email, job_link)
\* inserts its row whatever the table holds by then, a row with the same
\* pair included: the table has no constraint on the pair.  Two requests for
\* one pair, both past the check before either insert, leave two rows with
\* the pair.
C11_InsertAfterCheckUnconstrained ==
    [][\A c \in Clients :
          (inflight[c].at = "save" /\ inflight'[c] = Idle) =>
              LET data == inflight[c].data IN
              /\ Cardinality(job_applications') =
                    Cardinality(job_applications) + 1
              /\ job_applications \subseteq job_applications'
              /\ \A j \in job_applications' \ job_applications :
                    /\ j.user_email = data.user_email
                    /\ j.job_link = data.job_link
              /\ Cardinality(RowsWith(job_applications', data.user_email,
                                      data.job_link)) =
                    Cardinality(RowsWith(job_applications, data.user_email,
                                         data.job_link)) + 1
              /\ request'.answer = FormFilled]_vars

\* both requests passed the check, both inserted: two rows with one pair
C11_Witness ==
    /\ \E j1, j2 \in job_applications :
            /\ j1.id # j2.id
            /\ j1.user_email = j2.user_email
            /\ j1.job_link = j2.job_link
    /\ request.route = "job_details"
    /\ request.answer = FormFilled
    /\ \A c \in Clients : inflight[c] = Idle

====
